---- MODULE Spec2Model ----
(***************************************************************************)
(* Model of train_vicap.py: the per-worker training loop `main(gpu, config)`*)
(* spawned by `run_main` once per device of every node.  A worker is the    *)
(* pair <<node, gpu>>; each worker holds its own locals (epoch, phase, best *)
(* scores).  Workers meet only at torch.distributed.barrier() and at the    *)
(* checkpoint directory.                                                    *)
(***************************************************************************)
EXTENDS Integers, FiniteSets, Sequences, TLC

\* ---------------------------------------------------------------- bounds
MaxWorld == 3
MaxPhaseLen == 1
MaxScore == 1
MaxShortRun == 2

\* per-phase epoch counts a configuration may carry (zero and negative included)
PhaseLens == (0 - 1)..MaxPhaseLen
\* the configuration the source comments describe: 10, 5, 5, 20 epochs
DocumentedLens == <<10, 5, 5, 20>>
\* the configurations drawn: every combination of phase lengths whose run is at
\* most MaxShortRun epochs long, and the documented one
ShortConfigs == {c \in PhaseLens \X PhaseLens \X PhaseLens \X PhaseLens :
                    c[1] + c[2] + c[3] + c[4] <= MaxShortRun}
PhaseConfigs == ShortConfigs \cup {DocumentedLens}
\* CIDEr values the metric may return
Scores == 0..MaxScore
\* launches: nodes x devices per node, world_size = nodes * devices per node
Launches == {l \in (1..MaxWorld) \X (1..MaxWorld) : l[1] * l[2] <= MaxWorld}

VARIABLES config, rank, device, pc, epoch, phase, objective, sampler_epoch,
          best_cider_val, best_cider_test, files, evaluated, seen_val, seen_test,
          trained_with, set_epoch_calls

vars == <<config, rank, device, pc, epoch, phase, objective, sampler_epoch,
          best_cider_val, best_cider_test, files, evaluated, seen_val, seen_test,
          trained_with, set_epoch_calls>>

\* ------------------------------------------------------- launch (run_main)
\* one process per device of each node: mp.spawn(main, nprocs=ngpus_per_node)
Procs == {p \in (0..(config.nnodes - 1)) \X (0..(config.ngpus_per_node - 1)) : TRUE}

\* rank = config.exp.rank * config.exp.ngpus_per_node + gpu
RankOfLocal(node, gpu) == gpu
RankOf(node, gpu) == node * config.ngpus_per_node + gpu

\* device = torch.device(f"cuda:{gpu}")
DeviceOfRank(node, gpu) == RankOf(node, gpu)
DeviceOf(node, gpu) == gpu

\* ------------------------------------------------------ phase boundaries
fr_xe_epochs == config.freezing_xe_epochs
fr_sc_epochs == fr_xe_epochs + config.freezing_sc_epochs
ft_xe_epochs == fr_sc_epochs + config.finetune_xe_epochs
ft_sc_epochs == ft_xe_epochs + config.finetune_sc_epochs
total_epochs == ft_sc_epochs

start_epoch == 0

Max(a, b) == IF a >= b THEN a ELSE b

\* range(max(0, start_epoch), total_epochs)
FirstEpoch == Max(0, start_epoch)
InRangeInclusive(e) == e <= total_epochs
InRange(e) == e < total_epochs

\* the four phases the boundaries delimit, in order, and their objective
PhaseNames == {"fr_xe", "fr_sc", "ft_xe", "ft_sc"}

\* phase = 'ft_xe'
PhaseLabelByRank(e, r) == IF r = 0 THEN "ft_xe" ELSE "fr_xe"
PhaseLabelAlternating(e, r) == IF e % 2 = 0 THEN "ft_xe" ELSE "fr_xe"
PhaseLabel(e, r) == "ft_xe"

\* the training call of the loop body: always train_xe
TrainCall(e, r) == "xe"

\* ------------------------------------------------- rank-conditional work
\* if rank == 0: evaluate 'valid'
EvaluatesValid(r) == r = 0
\* if rank == 1: evaluate 'test'
EvaluatesTestOnRank0(r) == r = 0
EvaluatesTest(r) == r = 1
\* if rank == 0: save_checkpoint
WritesCheckpointAnyRank(r) == TRUE
WritesCheckpoint(r) == r = 0
\* if epoch >= 15: milestone checkpoint
MilestoneEpoch == 15
IsMilestoneAfter(e) == e > MilestoneEpoch
IsMilestone(e) == e >= MilestoneEpoch

AfterTest(r) == IF WritesCheckpoint(r) THEN "ckpt" ELSE "barrier"
AfterValid(r) == IF EvaluatesTest(r) THEN "eval_test" ELSE AfterTest(r)
AfterTrain(r) == IF EvaluatesValid(r) THEN "eval_valid" ELSE AfterValid(r)

\* ------------------------------------------------ external collaborators
\* evaluate_metrics(..., best_cider=b) with the split's score s: returns the
\* new best, replaced only when the score is strictly greater
evaluate_metrics(b, s) == IF s > b THEN s ELSE b

\* save_checkpoint(..., epoch, scores, best_ciders, filename): writes the
\* record under the file name, replacing a file of the same name.  writer and
\* version are bookkeeping: who wrote the file and how many times it was written
save_checkpoint(fs, filename, e, best, r) ==
    LET v == IF filename \in DOMAIN fs THEN fs[filename].version + 1 ELSE 1
        rec == [epoch |-> e, scores |-> <<>>, best_ciders |-> best,
                writer |-> r, version |-> v]
    IN  [n \in (DOMAIN fs) \cup {filename} |-> IF n = filename THEN rec ELSE fs[n]]

\* filename=f'checkpoint_{phase}.pth'
RollingName(ph) == "checkpoint_" \o ph \o ".pth"
\* filename=f'checkpoint_{epoch}.pth'
MilestoneNameFixed(e) == "checkpoint_" \o "milestone" \o ".pth"
MilestoneName(e) == "checkpoint_" \o ToString(e) \o ".pth"
\* best_cider=best_cider_val, best_cider=best_cider_test
ValidBestArgZero(p) == 0
ValidBestArg(p) == best_cider_val[p]
TestBestArg(p) == best_cider_test[p]
\* the train sampler's epoch before any set_epoch call
NeverSet == 0 - 1
\* the sampler epoch in effect during train_xe(..., epoch=epoch): set_epoch(epoch)
\* is called after the training call has returned
SamplerAtTrainSetFirst(p) == epoch[p]
SamplerAtTrain(p) == sampler_epoch[p]
\* best_ciders=[0, 0]
SavedBestCiders(p) == <<0, 0>>

\* ------------------------------------------------------------------ Init
Init ==
    /\ \E l \in Launches, c \in PhaseConfigs :
          config = [nnodes |-> l[1], ngpus_per_node |-> l[2],
                    world_size |-> l[1] * l[2],
                    freezing_xe_epochs |-> c[1], freezing_sc_epochs |-> c[2],
                    finetune_xe_epochs |-> c[3], finetune_sc_epochs |-> c[4]]
    /\ rank = [p \in Procs |-> RankOf(p[1], p[2])]
    /\ device = [p \in Procs |-> DeviceOf(p[1], p[2])]
    /\ epoch = [p \in Procs |-> FirstEpoch]
    /\ pc = [p \in Procs |-> IF InRange(FirstEpoch) THEN "train" ELSE "done"]
    /\ phase = [p \in Procs |-> "none"]
    /\ objective = [p \in Procs |-> "none"]
    /\ sampler_epoch = [p \in Procs |-> NeverSet]
    /\ best_cider_val = [p \in Procs |-> 0]
    /\ best_cider_test = [p \in Procs |-> 0]
    /\ seen_val = [p \in Procs |-> 0]
    /\ seen_test = [p \in Procs |-> 0]
    /\ evaluated = [p \in Procs |-> [valid |-> 0 - 1, test |-> 0 - 1]]
    /\ files = [n \in {} |-> 0]
    /\ trained_with = [p \in Procs |-> NeverSet]
    /\ set_epoch_calls = [p \in Procs |-> 0]

\* --------------------------------------------------------------- actions
\* lines 69-81: phase label, training call, samplers['train'].set_epoch(epoch);
\* trained_with records the sampler epoch the training call ran with and
\* set_epoch_calls counts the set_epoch calls
Train(p) ==
    /\ pc[p] = "train"
    /\ phase' = [phase EXCEPT ![p] = PhaseLabel(epoch[p], rank[p])]
    /\ objective' = [objective EXCEPT ![p] = TrainCall(epoch[p], rank[p])]
    /\ trained_with' = [trained_with EXCEPT ![p] = SamplerAtTrain(p)]
    /\ sampler_epoch' = [sampler_epoch EXCEPT ![p] = epoch[p]]
    /\ set_epoch_calls' = [set_epoch_calls EXCEPT ![p] = set_epoch_calls[p] + 1]
    /\ pc' = [pc EXCEPT ![p] = AfterTrain(rank[p])]
    /\ UNCHANGED <<config, rank, device, epoch, best_cider_val, best_cider_test,
                   files, evaluated, seen_val, seen_test>>

\* lines 83-97: best_cider_val = evaluate_metrics(..., split='valid', best_cider=best_cider_val)
EvalValid(p) ==
    /\ pc[p] = "eval_valid"
    /\ \E s \in Scores :
          /\ best_cider_val' = [best_cider_val EXCEPT ![p] = evaluate_metrics(ValidBestArg(p), s)]
          /\ seen_val' = [seen_val EXCEPT ![p] = Max(seen_val[p], s)]
    /\ evaluated' = [evaluated EXCEPT ![p] = [evaluated[p] EXCEPT !.valid = epoch[p]]]
    /\ pc' = [pc EXCEPT ![p] = AfterValid(rank[p])]
    /\ UNCHANGED <<trained_with, set_epoch_calls, config, rank, device, epoch, phase, objective, sampler_epoch,
                   best_cider_test, files, seen_test>>

\* lines 99-113: best_cider_test = evaluate_metrics(..., split='test', best_cider=best_cider_test)
EvalTest(p) ==
    /\ pc[p] = "eval_test"
    /\ \E s \in Scores :
          /\ best_cider_test' = [best_cider_test EXCEPT ![p] = evaluate_metrics(TestBestArg(p), s)]
          /\ seen_test' = [seen_test EXCEPT ![p] = Max(seen_test[p], s)]
    /\ evaluated' = [evaluated EXCEPT ![p] = [evaluated[p] EXCEPT !.test = epoch[p]]]
    /\ pc' = [pc EXCEPT ![p] = AfterTest(rank[p])]
    /\ UNCHANGED <<trained_with, set_epoch_calls, config, rank, device, epoch, phase, objective, sampler_epoch,
                   best_cider_val, files, seen_val>>

\* lines 115-125: the rolling checkpoint, named by the phase label
SaveRolling(p) ==
    /\ pc[p] = "ckpt"
    /\ files' = save_checkpoint(files, RollingName(phase[p]), epoch[p],
                                SavedBestCiders(p), rank[p])
    /\ pc' = [pc EXCEPT ![p] = IF IsMilestone(epoch[p]) THEN "milestone" ELSE "barrier"]
    /\ UNCHANGED <<trained_with, set_epoch_calls, config, rank, device, epoch, phase, objective, sampler_epoch,
                   best_cider_val, best_cider_test, evaluated, seen_val, seen_test>>

\* lines 126-136: the milestone checkpoint, named by the epoch number
SaveMilestone(p) ==
    /\ pc[p] = "milestone"
    /\ files' = save_checkpoint(files, MilestoneName(epoch[p]), epoch[p],
                                SavedBestCiders(p), rank[p])
    /\ pc' = [pc EXCEPT ![p] = "barrier"]
    /\ UNCHANGED <<trained_with, set_epoch_calls, config, rank, device, epoch, phase, objective, sampler_epoch,
                   best_cider_val, best_cider_test, evaluated, seen_val, seen_test>>

\* a barrier that lets each caller through on its own
BarrierNoWait ==
    \E q \in Procs :
        /\ pc[q] = "barrier"
        /\ epoch' = [epoch EXCEPT ![q] = epoch[q] + 1]
        /\ pc' = [pc EXCEPT ![q] = IF InRange(epoch[q] + 1) THEN "train" ELSE "done"]
        /\ UNCHANGED <<trained_with, set_epoch_calls, config, rank, device, phase, objective, sampler_epoch,
                       best_cider_val, best_cider_test, files, evaluated, seen_val, seen_test>>

\* line 138 and the loop header: torch.distributed.barrier() returns once every
\* worker of the group has entered it; each worker then takes the next epoch of
\* range(...) or leaves the loop
Barrier ==
    /\ \A p \in Procs : pc[p] = "barrier"
    /\ epoch' = [p \in Procs |-> epoch[p] + 1]
    /\ pc' = [p \in Procs |-> IF InRange(epoch[p] + 1) THEN "train" ELSE "done"]
    /\ UNCHANGED <<trained_with, set_epoch_calls, config, rank, device, phase, objective, sampler_epoch,
                   best_cider_val, best_cider_test, files, evaluated, seen_val, seen_test>>

Next ==
    \/ \E p \in Procs : Train(p)
    \/ \E p \in Procs : EvalValid(p)
    \/ \E p \in Procs : EvalTest(p)
    \/ \E p \in Procs : SaveRolling(p)
    \/ \E p \in Procs : SaveMilestone(p)
    \/ Barrier

Spec == Init /\ [][Next]_vars

\* the workers run as operating-system processes, each scheduled until it
\* blocks or returns: some enabled step is eventually taken
FairSpec == Spec /\ WF_vars(Next)

\* ------------------------------------------------------- fatal failures
\* an exception raised in main during one of the steps of an epoch ends the
\* worker process with a non-zero exit status
Crash(p) ==
    /\ pc[p] \in {"train", "eval_valid", "eval_test", "ckpt", "milestone"}
    /\ pc' = [pc EXCEPT ![p] = "failed"]
    /\ UNCHANGED <<trained_with, set_epoch_calls, config, rank, device, epoch, phase,
                   objective, sampler_epoch, best_cider_val, best_cider_test, files,
                   evaluated, seen_val, seen_test>>

\* mp.spawn(main, nprocs=ngpus_per_node, ...) joins the processes it spawned on
\* its node: when one of them has failed it terminates the others of that node
TerminateNode(node) ==
    /\ \E p \in Procs : p[1] = node /\ pc[p] = "failed"
    /\ \E q \in Procs : q[1] = node /\ pc[q] \notin {"failed", "killed", "done"}
    /\ pc' = [q \in Procs |->
                IF q[1] = node /\ pc[q] \notin {"failed", "killed", "done"}
                THEN "killed" ELSE pc[q]]
    /\ UNCHANGED <<trained_with, set_epoch_calls, config, rank, device, epoch, phase,
                   objective, sampler_epoch, best_cider_val, best_cider_test, files,
                   evaluated, seen_val, seen_test>>

CrashNext ==
    \/ Next
    \/ \E p \in Procs : Crash(p)
    \/ \E node \in 0..(config.nnodes - 1) : TerminateNode(node)

CrashSpec == Init /\ [][CrashNext]_vars /\ WF_vars(CrashNext)

\* ================================================================ claims
\* the phase lengths of the configuration, and a configuration all of whose
\* phases have at least one epoch
Lens == <<config.freezing_xe_epochs, config.freezing_sc_epochs,
          config.finetune_xe_epochs, config.finetune_sc_epochs>>
ValidConfig == \A i \in 1..4 : Lens[i] >= 1
WorldSize == Cardinality(Procs)
\* a worker that has run the phase assignment and training call of its epoch
\* and has not yet been released by that epoch's barrier
InEpochWork(p) == pc[p] \notin {"train", "done"}

\* the epoch-e work of worker q is complete: trained, evaluated the split its
\* rank is assigned, and (rank 0) the checkpoints of epoch e are on disk
EpochWorkDone(q, e) ==
    /\ sampler_epoch[q] >= e
    /\ rank[q] = 0 => evaluated[q].valid >= e
    /\ rank[q] = 1 => evaluated[q].test >= e
    /\ rank[q] = 0 =>
          /\ RollingName(phase[q]) \in DOMAIN files
          /\ files[RollingName(phase[q])].epoch >= e
          /\ e >= 15 => MilestoneName(e) \in DOMAIN files

\* C1: no worker has run the training call of epoch e+1 unless every worker
\* of the group has completed its epoch-e work (training, 'valid' evaluation
\* on rank 0, 'test' evaluation on rank 1, checkpoint writes on rank 0).
C1_BarrierProperty ==
    \A p \in Procs : \A q \in Procs :
        sampler_epoch[p] >= 1 => EpochWorkDone(q, sampler_epoch[p] - 1)

\* C1 witness: in a group of three, a worker has trained epoch 16, so the
\* epoch before it had a milestone checkpoint to wait for
C1_Witness ==
    /\ WorldSize >= 3
    /\ \E p \in Procs : rank[p] = 2 /\ sampler_epoch[p] = 16 /\ pc[p] = "barrier"
    /\ \E q \in Procs : rank[q] = 0 /\ pc[q] = "train"

\* C2: workers that are inside an epoch hold the same epoch index, and those
\* that have assigned the epoch's phase label hold the same label whatever
\* their rank.
C2_SameEpochAndPhase ==
    \A p \in Procs : \A q \in Procs :
        /\ (pc[p] # "done" /\ pc[q] # "done") => epoch[p] = epoch[q]
        /\ (InEpochWork(p) /\ InEpochWork(q)) => phase[p] = phase[q]

\* C2 witness: ranks 0 and 1 are both in the middle of epoch 1
C2_Witness ==
    \E p \in Procs : \E q \in Procs :
        /\ rank[p] = 0 /\ rank[q] = 1
        /\ pc[p] = "ckpt" /\ pc[q] = "eval_test"
        /\ epoch[p] = 1 /\ epoch[q] = 1

\* the phase whose cumulative boundary is the first to exceed e
Resolve(e) ==
    IF e < fr_xe_epochs THEN "fr_xe"
    ELSE IF e < fr_sc_epochs THEN "fr_sc"
    ELSE IF e < ft_xe_epochs THEN "ft_xe"
    ELSE "ft_sc"

\* C3 (as claimed): in a configuration with positive phase lengths the phase
\* a worker runs epoch e in is the first phase whose cumulative boundary exceeds
\* e, no epoch at or past the last boundary is run, and lengths (10, 5, 5, 20)
\* give the boundaries (10, 15, 20, 40).
C3_PhaseIsFirstBoundaryAbove ==
    /\ Lens = DocumentedLens =>
          <<fr_xe_epochs, fr_sc_epochs, ft_xe_epochs, ft_sc_epochs>> = <<10, 15, 20, 40>>
    /\ \A p \in Procs :
          (ValidConfig /\ InEpochWork(p)) =>
              /\ epoch[p] < ft_sc_epochs
              /\ phase[p] = Resolve(epoch[p])

PhaseIndex(ph) ==
    CASE ph = "none" -> 0
      [] ph = "fr_xe" -> 1
      [] ph = "fr_sc" -> 2
      [] ph = "ft_xe" -> 3
      [] ph = "ft_sc" -> 4

\* C4: every training step assigns the epoch exactly one of the four phases,
\* and the phase a worker holds never moves back to an earlier phase.
C4_PhaseMonotone ==
    [][\A p \in Procs :
          /\ PhaseIndex(phase'[p]) >= PhaseIndex(phase[p])
          /\ (pc[p] = "train" /\ pc'[p] # "train") => phase'[p] \in PhaseNames]_vars

\* C4 witness: a worker has been assigned a phase in epoch 2 of a
\* configuration with positive phase lengths
C4_Witness ==
    /\ ValidConfig
    /\ \E p \in Procs : epoch[p] = 2 /\ InEpochWork(p) /\ phase[p] \in PhaseNames

\* the objective tagged on a phase
ObjectiveOf(ph) == IF ph \in {"fr_sc", "ft_sc"} THEN "sc" ELSE "xe"

\* C5 (as claimed): the objective a worker runs in epoch e is the one tagged
\* on the phase e falls in: cross-entropy in the likelihood phases,
\* self-critical reward in the reward phases.
C5_ObjectiveFollowsPhase ==
    \A p \in Procs :
        (ValidConfig /\ InEpochWork(p)) => objective[p] = ObjectiveOf(Resolve(epoch[p]))

\* the ranks that evaluated the split in epoch e
EvaluatorsOf(split, e) == {p \in Procs : evaluated[p][split] = e}

\* C6 (as claimed): when an epoch is complete on every worker, each of
\* 'valid' and 'test' has been evaluated in it by exactly one rank.
C6_ExactlyOneEvaluator ==
    (\A p \in Procs : pc[p] = "barrier") =>
        \A split \in {"valid", "test"} :
            \A p \in Procs : Cardinality(EvaluatorsOf(split, epoch[p])) = 1

\* C7 (as claimed): the checkpoint rank 0 has just written in epoch k holds
\* epoch k and the best-score table rank 0 holds at epoch k, so that restoring
\* it gives back that epoch index and that table.
C7_CheckpointRoundTrip ==
    \A p \in Procs :
        (rank[p] = 0 /\ pc[p] \in {"milestone", "barrier"}) =>
            LET rec == files[RollingName(phase[p])] IN
                /\ rec.epoch = epoch[p]
                /\ rec.best_ciders = <<best_cider_val[p], best_cider_test[p]>>

\* C8: the best score a worker holds for a split equals the maximum of the
\* initial 0.0 and the scores its evaluations of that split returned, so it
\* never decreases and a tie or a lower score leaves it unchanged.
C8_BestIsMaxSeen ==
    \A p \in Procs :
        /\ best_cider_val[p] = seen_val[p]
        /\ best_cider_test[p] = seen_test[p]

\* C8 witness: rank 0 holds the top score after three 'valid' evaluations, of
\* which at most one raised the best: the others were ties or lower scores
C8_Witness ==
    \E p \in Procs :
        /\ rank[p] = 0
        /\ evaluated[p].valid = 2
        /\ best_cider_val[p] = 1
        /\ MaxScore = 1

\* C9: the 'valid' best is 0.0 on every rank but 0 and the 'test' best is
\* 0.0 on every rank but 1; no rank evaluates a split it is not assigned.
C9_OnlyAssignedRankChangesBest ==
    \A p \in Procs :
        /\ rank[p] # 0 => (best_cider_val[p] = 0 /\ evaluated[p].valid = 0 - 1)
        /\ rank[p] # 1 => (best_cider_test[p] = 0 /\ evaluated[p].test = 0 - 1)

\* C9 witness: ranks 0 and 1 have both raised their split's best while a
\* third rank has finished the epoch
C9_Witness ==
    \E p \in Procs : \E q \in Procs : \E o \in Procs :
        /\ rank[p] = 0 /\ best_cider_val[p] = 1
        /\ rank[q] = 1 /\ best_cider_test[q] = 1
        /\ rank[o] = 2 /\ pc[o] = "barrier"

\* C10: every checkpoint file on disk, rolling or milestone, was written by
\* rank 0.
C10_OnlyRank0Writes ==
    \A n \in DOMAIN files : files[n].writer = 0

\* C10 witness: a rolling and a milestone checkpoint are on disk in a group
\* of more than one worker
C10_Witness ==
    /\ WorldSize >= 2
    /\ RollingName("ft_xe") \in DOMAIN files
    /\ MilestoneName(15) \in DOMAIN files

\* the rank-0 worker's count of rolling writes and its last epoch whose
\* milestone step is behind it
RollingWrites(p) == IF pc[p] \in {"milestone", "barrier"} THEN epoch[p] + 1 ELSE epoch[p]
LastCheckpointed(p) == IF pc[p] = "barrier" THEN epoch[p] ELSE epoch[p] - 1
MilestonesDue(p) ==
    IF LastCheckpointed(p) >= MilestoneEpoch THEN LastCheckpointed(p) - MilestoneEpoch + 1 ELSE 0

\* C11: every epoch at or past the threshold whose checkpoint step is done
\* has a milestone file named by its number, written exactly once and holding
\* that epoch; no file exists for an epoch below the threshold; the rolling
\* file has one name and has been rewritten once per epoch.
C11_MilestonesAccumulate ==
    \A p \in Procs : rank[p] = 0 =>
        LET rolling == RollingName(phase[p]) IN
        /\ \A n \in DOMAIN files :
              \/ n = rolling
              \/ /\ files[n].epoch >= MilestoneEpoch
                 /\ files[n].version = 1
                 /\ n = MilestoneName(files[n].epoch)
        /\ Cardinality(DOMAIN files) =
              (IF RollingWrites(p) >= 1 THEN 1 ELSE 0) + MilestonesDue(p)
        /\ RollingWrites(p) >= 1 =>
              /\ rolling \in DOMAIN files
              /\ files[rolling].version = RollingWrites(p)
              /\ files[rolling].epoch = RollingWrites(p) - 1

\* C11 witness: the milestones of epochs 15 and 16 are both on disk beside a
\* rolling file in its 17th version
C11_Witness ==
    /\ MilestoneName(15) \in DOMAIN files
    /\ MilestoneName(16) \in DOMAIN files
    /\ RollingName("ft_xe") \in DOMAIN files
    /\ files[RollingName("ft_xe")].version = 17

\* C12 (as claimed): with all four phase lengths non-positive no worker
\* completes normally; the run is rejected.
C12_NonPositiveRejected ==
    (\A i \in 1..4 : Lens[i] <= 0) => \A p \in Procs : pc[p] # "done"

\* C13 (as claimed): a configuration under which an epoch has run has
\* strictly increasing cumulative boundaries.
C13_AcceptedBoundariesIncrease ==
    (\E p \in Procs : sampler_epoch[p] >= 0) =>
        (fr_xe_epochs < fr_sc_epochs /\ fr_sc_epochs < ft_xe_epochs /\ ft_xe_epochs < ft_sc_epochs)

C18_Rank0StepOrder ==
    \A p \in Procs : rank[p] = 0 =>
        LET e == epoch[p]
            rolled == RollingName(phase[p]) \in DOMAIN files
                      /\ files[RollingName(phase[p])].epoch = e
        IN  /\ pc[p] = "train" => (sampler_epoch[p] < e /\ evaluated[p].valid < e)
            /\ pc[p] = "eval_valid" => (sampler_epoch[p] = e /\ evaluated[p].valid < e /\ ~rolled)
            /\ pc[p] = "ckpt" => (sampler_epoch[p] = e /\ evaluated[p].valid = e /\ ~rolled)
            /\ pc[p] = "milestone" =>
                  (e >= 15 /\ evaluated[p].valid = e /\ rolled
                   /\ MilestoneName(e) \notin DOMAIN files)
            /\ pc[p] = "barrier" =>
                  (evaluated[p].valid = e /\ rolled
                   /\ (e >= 15 <=> MilestoneName(e) \in DOMAIN files))

\* C18 witness: rank 0 has written both checkpoints of epoch 15 and waits at
\* the barrier while rank 1 has not yet evaluated 'test' in epoch 15
C18_Witness ==
    \E p \in Procs : \E q \in Procs :
        /\ rank[p] = 0 /\ rank[q] = 1
        /\ epoch[p] = 15 /\ pc[p] = "barrier"
        /\ MilestoneName(15) \in DOMAIN files
        /\ pc[q] = "eval_test" /\ evaluated[q].test < 15

\* C19: a worker inside epoch e has called set_epoch e+1 times, the last with
\* e, and its training call of e ran with the sampler never set (e = 0) or
\* last set to e-1; a worker about to train e has called it e times.
C19_SetEpochAfterTraining ==
    \A p \in Procs :
        /\ InEpochWork(p) =>
              /\ sampler_epoch[p] = epoch[p]
              /\ set_epoch_calls[p] = epoch[p] + 1
              /\ epoch[p] = 0 => trained_with[p] = NeverSet
              /\ epoch[p] >= 1 => trained_with[p] = epoch[p] - 1
        /\ pc[p] = "train" =>
              /\ set_epoch_calls[p] = epoch[p]
              /\ epoch[p] >= 1 => sampler_epoch[p] = epoch[p] - 1
              /\ epoch[p] = 0 => sampler_epoch[p] = NeverSet

\* C19 witness: a rank with no other duty has trained epoch 2 with the
\* sampler last set to 1
C19_Witness ==
    \E p \in Procs :
        rank[p] = 2 /\ epoch[p] = 2 /\ pc[p] = "barrier" /\ trained_with[p] = 1

\* the workers that are out of the run: failed, terminated or returned
Stopped(q) == pc[q] \in {"failed", "killed", "done"}

\* C14 (as claimed): once a worker has failed, no other worker trains an
\* epoch later than the one the failure happened in, and the run cannot come
\* to rest with a worker that is neither failed, terminated nor returned
\* (a worker left blocked in the barrier).
C14_FailureStopsGroup ==
    \A p \in Procs : pc[p] = "failed" =>
        /\ \A q \in Procs : sampler_epoch[q] <= epoch[p]
        /\ (~ ENABLED CrashNext) => \A q \in Procs : Stopped(q)

\* C15: under fair scheduling and without failures every run ends with every
\* worker returned from main having trained total_epochs epochs, the last of
\* them total_epochs - 1, and every training call trains the epoch after the
\* one trained before it, starting with epoch 0.
C15_AllEpochsThenTermination ==
    /\ <>[](\A p \in Procs :
              /\ pc[p] = "done"
              /\ set_epoch_calls[p] = Max(0, total_epochs)
              /\ sampler_epoch[p] = Max(0, total_epochs) - 1)
    /\ [][\A p \in Procs :
              sampler_epoch'[p] # sampler_epoch[p] => sampler_epoch'[p] = sampler_epoch[p] + 1]_vars

\* C15 witness: a rank with neither a split nor the checkpoint duty has
\* returned from main after the 40 epochs of the documented configuration
C15_Witness ==
    \E p \in Procs :
        rank[p] = 2 /\ pc[p] = "done" /\ set_epoch_calls[p] = 40 /\ Lens = DocumentedLens

====
